---- MODULE Spec2Model ----
(***************************************************************************)
(* Model of archive.py, the incremental reddit archiver: the relational    *)
(* store (six tables with their primary-key, unique and foreign-key        *)
(* constraints), the entity reconciler (get_subreddit_id, get_redditor_id),*)
(* the write-once insert layer (insert_submission, insert_comment,         *)
(* insert_comment_unchecked), tree rehydration (process_submission) and    *)
(* ancestor chain backfill (process_comment).                              *)
(*                                                                         *)
(* The remote API is the environment: every call hands the handler a       *)
(* snapshot of the object (its upstream field values, the reported comment *)
(* total and the flattened comment list), chosen from small sets.          *)
(***************************************************************************)
EXTENDS Integers, Sequences, FiniteSets, TLC

VARIABLES subreddit, redditor, submission, comment, saved_submission,
          saved_comment, subreddit_cache, redditor_cache, redditor_id,
          api_version, api_total, api_visible, err, log, last,
          runs, driver, uninterrupted

vars == <<subreddit, redditor, submission, comment, saved_submission,
          saved_comment, subreddit_cache, redditor_cache, redditor_id,
          api_version, api_total, api_visible, err, log, last,
          runs, driver, uninterrupted>>

(***************************************************************************)
(* Bounds of the model.                                                    *)
(***************************************************************************)
\* the post carries one reply chain of this depth
Depth == 3
\* largest comment total the API reports for the post
MaxTotal == 3
\* number of upstream snapshots of an object (score, author, ... differ)
NumVersions == 2

(***************************************************************************)
(* Values.                                                                 *)
(***************************************************************************)
\* Python's None / SQL NULL where an integer id is expected
None == -1
\* Python's None where a text is expected
NoneText == "None"
\* the operation returned normally
OK == "ok"
\* psycopg.errors.UniqueViolation (PRIMARY KEY / UNIQUE)
UniqueViolation == "UniqueViolation"
\* psycopg.errors.ForeignKeyViolation (FOREIGN KEY)
ForeignKeyViolation == "ForeignKeyViolation"
\* psycopg.OperationalError: the connection to the store is lost
OperationalError == "OperationalError"
\* prawcore.exceptions.NotFound and prawcore.Forbidden
NotFound == "NotFound"
Forbidden == "Forbidden"

(***************************************************************************)
(* Identifier codec: base36.loads, and the API's own encoding.             *)
(***************************************************************************)
Alphabet == <<"0", "1", "2", "3", "4", "5", "6", "7", "8", "9", "a", "b",
              "c", "d", "e", "f", "g", "h", "i", "j", "k", "l", "m", "n",
              "o", "p", "q", "r", "s", "t", "u", "v", "w", "x", "y", "z">>

CharValue(c) == (CHOOSE i \in 1..36 : Alphabet[i] = c) - 1

RECURSIVE loads(_)
loads(s) ==
    IF s = <<>> THEN 0
    ELSE loads(SubSeq(s, 1, Len(s) - 1)) * 36 + CharValue(s[Len(s)])

RECURSIVE dumps(_)
dumps(n) ==
    IF n < 36 THEN <<Alphabet[n + 1]>>
    ELSE dumps(n \div 36) \o <<Alphabet[(n % 36) + 1]>>

\* Python truthiness of an id or None: `if saved_by:`
truthy(x) == x # None /\ x # 0

(***************************************************************************)
(* The API's objects: one post with one reply chain of Depth comments.     *)
(* Ids are base-36 texts; a comment's parent_id is a fullname: "t3_" +     *)
(* post id for a top-level comment, "t1_" + comment id for a reply.        *)
(***************************************************************************)
Depths == 1..Depth
Versions == 1..NumVersions
Totals == 0..MaxTotal

T1 == <<"t", "1", "_">>
T3 == <<"t", "3", "_">>

SubmissionId == dumps(37)
CommentId(d) == dumps(36 * 11 + d)

\* the subreddit of the post
TheSubreddit == [id |-> dumps(74), display_name |-> "pics"]

\* redditor objects: the authenticated user (who also wrote the post) and
\* the author of the comments
Me == [kind |-> "Redditor", id |-> dumps(41), name |-> "me"]
Commenter == [kind |-> "Redditor", id |-> dumps(42), name |-> "commenter"]
\* submission.author / comment.author of a deleted account
NoRedditor == [kind |-> "None", id |-> <<>>, name |-> ""]
\* a redditor object whose lazy fetch raises prawcore.exceptions.NotFound
NotFoundRedditor == [kind |-> "NotFound", id |-> <<>>, name |-> ""]

\* the author an upstream snapshot shows: the account, None once the
\* account was deleted, an object whose id fetch raises NotFound
AuthorAt(r, v) ==
    CASE v % 3 = 1 -> r
      [] v % 3 = 2 -> NoRedditor
      [] OTHER -> NotFoundRedditor

\* the comment at depth d as snapshot v shows it
ApiComment(d, v) ==
    [id |-> CommentId(d),
     submission |-> SubmissionId,
     parent_id |-> IF d = 1 THEN T3 \o SubmissionId
                   ELSE T1 \o CommentId(d - 1),
     author |-> AuthorAt(Commenter, v + d),
     score |-> v,
     body |-> IF v % 2 = 1 THEN "body" ELSE NoneText,
     created_utc |-> 100 + d,
     distinguished |-> IF v % 2 = 1 THEN NoneText ELSE "moderator",
     stickied |-> FALSE,
     banned_by |-> IF v % 3 = 0 THEN "mod" ELSE NoneText,
     d |-> d, v |-> v]

\* comment_tree.list() after replace_more: the first n comments of the
\* chain, parents before replies (the deeper ones are hidden by the API)
ApiCommentList(n, v) == [d \in 1..n |-> ApiComment(d, v)]

\* the post as snapshot v shows it, reporting t comments in total and
\* exposing n of them
ApiSubmission(v, t, n) ==
    [id |-> SubmissionId,
     subreddit |-> TheSubreddit,
     title |-> IF v % 2 = 1 THEN "title" ELSE "title (edited)",
     author |-> AuthorAt(Me, v),
     score |-> v,
     is_self |-> (v % 2 = 1),
     selftext |-> "selftext",
     url |-> "url",
     created_utc |-> 100,
     distinguished |-> NoneText,
     stickied |-> (v % 2 = 0),
     removed_by_category |-> IF v % 2 = 0 THEN "moderator" ELSE NoneText,
     num_comments |-> t,
     comments |-> ApiCommentList(n, v)]

\* comment.parent(): the parent comment object, fetched from the API
parent(c) == ApiComment(c.d - 1, c.v)

(***************************************************************************)
(* The store.  A table is the set of its rows; st is the state a handler   *)
(* threads through its statements: the six tables, the two id caches, the  *)
(* exception raised so far (OK when none) and the INSERTs executed.        *)
(* Every INSERT is committed by the db().commit() that follows it.         *)
(***************************************************************************)
\* a statement after a raised exception is not executed
raised(st) == st.err # OK

\* SELECT COUNT(1) FROM table WHERE id = %s
count_by_id(table, id) == Cardinality({r \in table : r.id = id})

\* INSERT INTO subreddit: PRIMARY KEY (id), UNIQUE (name)
insert_into_subreddit(st, row) ==
    IF raised(st) THEN st
    ELSE IF \E r \in st.subreddit : r.id = row.id \/ r.name = row.name
    THEN [st EXCEPT !.err = UniqueViolation]
    ELSE [st EXCEPT !.subreddit = @ \cup {row},
                    !.log = Append(@, <<"subreddit", row.id>>)]

\* INSERT INTO redditor: PRIMARY KEY (id), UNIQUE (name)
insert_into_redditor(st, row) ==
    IF raised(st) THEN st
    ELSE IF \E r \in st.redditor : r.id = row.id \/ r.name = row.name
    THEN [st EXCEPT !.err = UniqueViolation]
    ELSE [st EXCEPT !.redditor = @ \cup {row},
                    !.log = Append(@, <<"redditor", row.id>>)]

\* INSERT INTO submission: PRIMARY KEY (id), FOREIGN KEY (subreddit),
\* FOREIGN KEY (author), hidden_comments DEFAULT 0
insert_into_submission(st, row) ==
    IF raised(st) THEN st
    ELSE IF \E r \in st.submission : r.id = row.id
    THEN [st EXCEPT !.err = UniqueViolation]
    ELSE IF \/ count_by_id(st.subreddit, row.subreddit) = 0
            \/ row.author # None /\ count_by_id(st.redditor, row.author) = 0
    THEN [st EXCEPT !.err = ForeignKeyViolation]
    ELSE [st EXCEPT !.submission = @ \cup {row},
                    !.log = Append(@, <<"submission", row.id>>)]

\* INSERT INTO comment: PRIMARY KEY (id), FOREIGN KEY (submission),
\* FOREIGN KEY (parent), FOREIGN KEY (author)
insert_into_comment(st, row) ==
    IF raised(st) THEN st
    ELSE IF \E r \in st.comment : r.id = row.id
    THEN [st EXCEPT !.err = UniqueViolation]
    ELSE IF \/ count_by_id(st.submission, row.submission) = 0
            \/ row.parent # None /\ count_by_id(st.comment, row.parent) = 0
            \/ row.author # None /\ count_by_id(st.redditor, row.author) = 0
    THEN [st EXCEPT !.err = ForeignKeyViolation]
    ELSE [st EXCEPT !.comment = @ \cup {row},
                    !.log = Append(@, <<"comment", row.id>>)]

\* INSERT INTO saved_submission: id SERIAL, FOREIGN KEY (submission),
\* FOREIGN KEY (owner); no uniqueness on (owner, submission)
insert_into_saved_submission(st, owner, target) ==
    IF raised(st) THEN st
    ELSE IF \/ count_by_id(st.submission, target) = 0
            \/ count_by_id(st.redditor, owner) = 0
    THEN [st EXCEPT !.err = ForeignKeyViolation]
    ELSE [st EXCEPT !.saved_submission = @ \cup
                        {[id |-> Cardinality(st.saved_submission) + 1,
                          owner |-> owner, submission |-> target]},
                    !.log = Append(@, <<"saved_submission", target>>)]

\* INSERT INTO saved_comment: id SERIAL, FOREIGN KEY (comment),
\* FOREIGN KEY (owner); no uniqueness on (owner, comment)
insert_into_saved_comment(st, owner, target) ==
    IF raised(st) THEN st
    ELSE IF \/ count_by_id(st.comment, target) = 0
            \/ count_by_id(st.redditor, owner) = 0
    THEN [st EXCEPT !.err = ForeignKeyViolation]
    ELSE [st EXCEPT !.saved_comment = @ \cup
                        {[id |-> Cardinality(st.saved_comment) + 1,
                          owner |-> owner, comment |-> target]},
                    !.log = Append(@, <<"saved_comment", target>>)]

(***************************************************************************)
(* Entity reconciler.                                                      *)
(***************************************************************************)
get_subreddit_id(st, sr) ==
    LET numeric_id == loads(sr.id) IN
    IF raised(st) THEN st
    ELSE IF numeric_id \in st.subreddit_cache THEN st
    ELSE IF count_by_id(st.subreddit, numeric_id) # 0
    THEN [st EXCEPT !.subreddit_cache = @ \cup {numeric_id}]
    ELSE LET s1 == insert_into_subreddit(
                       st, [id |-> numeric_id, name |-> sr.display_name])
         IN  IF raised(s1) THEN s1
             ELSE [s1 EXCEPT !.subreddit_cache = @ \cup {numeric_id}]

\* the value get_redditor_id returns
redditor_id_of(r) ==
    IF r.kind = "Redditor" THEN loads(r.id) ELSE None

\* get_redditor_id without its except clause: the NotFound of the lazy
\* fetch of redditor.id propagates
get_redditor_id_uncaught(st, r) ==
    IF raised(st) THEN st
    ELSE IF r.kind = "NotFound" THEN [st EXCEPT !.err = NotFound]
    ELSE IF r.kind # "Redditor" THEN st
    ELSE LET numeric_id == loads(r.id) IN
    IF numeric_id \in st.redditor_cache THEN st
    ELSE IF count_by_id(st.redditor, numeric_id) # 0
    THEN [st EXCEPT !.redditor_cache = @ \cup {numeric_id}]
    ELSE LET s1 == insert_into_redditor(
                       st, [id |-> numeric_id, name |-> r.name])
         IN  IF raised(s1) THEN s1
             ELSE [s1 EXCEPT !.redditor_cache = @ \cup {numeric_id}]

get_redditor_id(st, r) ==
    IF raised(st) THEN st
    ELSE IF r.kind # "Redditor" THEN st
    ELSE LET numeric_id == loads(r.id) IN
    IF numeric_id \in st.redditor_cache THEN st
    ELSE IF count_by_id(st.redditor, numeric_id) # 0
    THEN [st EXCEPT !.redditor_cache = @ \cup {numeric_id}]
    ELSE LET s1 == insert_into_redditor(
                       st, [id |-> numeric_id, name |-> r.name])
         IN  IF raised(s1) THEN s1
             ELSE [s1 EXCEPT !.redditor_cache = @ \cup {numeric_id}]

(***************************************************************************)
(* Write-once insert layer.                                                *)
(***************************************************************************)
\* the row insert_submission builds from the API object
submission_row(s) ==
    [id |-> loads(s.id),
     subreddit |-> loads(s.subreddit.id),
     title |-> s.title,
     author |-> redditor_id_of(s.author),
     score |-> s.score,
     content |-> IF s.is_self THEN s.selftext ELSE s.url,
     timestamp |-> s.created_utc,
     distinguished |-> (s.distinguished # NoneText),
     stickied |-> s.stickied,
     removed |-> (s.removed_by_category # NoneText),
     hidden_comments |-> 0]

\* insert_submission without its existence probe
insert_submission_unprobed(st, s) ==
    IF raised(st) THEN st
    ELSE insert_into_submission(
             get_redditor_id(get_subreddit_id(st, s.subreddit), s.author),
             submission_row(s))

\* insert_submission that refreshes the stored fields of an existing row
insert_submission_refreshing(st, s) ==
    IF raised(st) THEN st
    ELSE IF count_by_id(st.submission, loads(s.id)) # 0
    THEN [st EXCEPT !.submission =
             {IF r.id = loads(s.id)
              THEN [submission_row(s) EXCEPT
                        !.author = r.author,
                        !.hidden_comments = r.hidden_comments]
              ELSE r : r \in @}]
    ELSE insert_into_submission(
             get_redditor_id(get_subreddit_id(st, s.subreddit), s.author),
             submission_row(s))

\* insert_submission that does not resolve the subreddit first
insert_submission_unresolved(st, s) ==
    IF raised(st) THEN st
    ELSE IF count_by_id(st.submission, loads(s.id)) # 0 THEN st
    ELSE insert_into_submission(get_redditor_id(st, s.author),
                                submission_row(s))

insert_submission(st, s) ==
    IF raised(st) THEN st
    ELSE IF count_by_id(st.submission, loads(s.id)) # 0 THEN st
    ELSE insert_into_submission(
             get_redditor_id(get_subreddit_id(st, s.subreddit), s.author),
             submission_row(s))

\* comment.parent_id.startswith('t1_')
is_reply(c) == SubSeq(c.parent_id, 1, 3) = T1

\* base36.loads(comment.parent_id[3:]) if it names a comment, else None
parent_comment_id(c) ==
    IF is_reply(c) THEN loads(SubSeq(c.parent_id, 4, Len(c.parent_id)))
    ELSE None

\* the row insert_comment_unchecked builds from the API object
comment_row(c) ==
    [id |-> loads(c.id),
     submission |-> loads(c.submission),
     parent |-> parent_comment_id(c),
     author |-> redditor_id_of(c.author),
     score |-> c.score,
     content |-> c.body,
     timestamp |-> c.created_utc,
     distinguished |-> (c.distinguished # NoneText),
     stickied |-> c.stickied,
     removed |-> (c.banned_by # NoneText \/ c.body = NoneText)]

insert_comment_unchecked(st, c) ==
    IF raised(st) THEN st
    ELSE insert_into_comment(get_redditor_id(st, c.author), comment_row(c))

insert_comment(st, c) ==
    IF raised(st) THEN st
    ELSE IF count_by_id(st.comment, loads(c.id)) # 0 THEN st
    ELSE insert_comment_unchecked(st, c)

(***************************************************************************)
(* Tree rehydration.                                                       *)
(***************************************************************************)
\* SELECT COUNT(1) FROM comment WHERE submission = %s
stored_comments(st, sid) ==
    Cardinality({r \in st.comment : r.submission = sid})

\* SELECT hidden_comments FROM submission WHERE id = %s
hidden_comments(st, sid) ==
    (CHOOSE r \in st.submission : r.id = sid).hidden_comments

\* the test with <= in place of <
rehydration_inclusive(stored, hidden, total) == stored + hidden <= total

\* a rehydration on every call, whatever is stored
rehydration_unconditional(stored, hidden, total) == TRUE

\* the test that starts a rehydration
rehydration_needed(stored, hidden, total) == stored + hidden < total

\* SELECT id FROM comment WHERE submission = %s
existing_comments(st, sid) ==
    {r.id : r \in {x \in st.comment : x.submission = sid}}

\* the loop over comment_tree.list() without the skip of existing ids
RECURSIVE insert_listed_all(_, _, _, _)
insert_listed_all(st, list, i, existing) ==
    IF i > Len(list) THEN st
    ELSE insert_listed_all(insert_comment_unchecked(st, list[i]),
                           list, i + 1, existing)

\* for comment in comment_tree.list(): skip the existing ids, insert the rest
RECURSIVE insert_listed(_, _, _, _)
insert_listed(st, list, i, existing) ==
    IF i > Len(list) THEN st
    ELSE insert_listed(
             IF loads(list[i].id) \in existing THEN st
             ELSE insert_comment_unchecked(st, list[i]),
             list, i + 1, existing)

\* the hidden-comment count with a negative difference replaced by zero
hidden_count_clamped(total, list) ==
    IF total - Len(list) < 0 THEN 0 ELSE total - Len(list)

\* the value the rehydration stores as hidden-comment count
hidden_count(total, list) == total - Len(list)

\* UPDATE submission SET hidden_comments = %s WHERE id = %s
update_hidden_comments(st, sid, value) ==
    IF raised(st) THEN st
    ELSE [st EXCEPT !.submission =
             {IF r.id = sid THEN [r EXCEPT !.hidden_comments = value] ELSE r
              : r \in @}]

\* SELECT COUNT(1) FROM saved_submission WHERE owner = %s AND submission = %s
count_saved_submission(st, owner, target) ==
    Cardinality({r \in st.saved_submission :
                     r.owner = owner /\ r.submission = target})

\* the `if saved_by:` block of process_submission
save_submission(st, saved_by, sid) ==
    IF raised(st) \/ ~truthy(saved_by) THEN st
    ELSE IF count_saved_submission(st, saved_by, sid) = 0
    THEN insert_into_saved_submission(st, saved_by, sid)
    ELSE st

\* the rehydration block of process_submission
rehydrate(st, s) ==
    LET sid == loads(s.id)
        list == s.comments
    IN  update_hidden_comments(
            insert_listed(st, list, 1, existing_comments(st, sid)),
            sid, hidden_count(s.num_comments, list))

process_submission(st, s, saved_by) ==
    LET sid == loads(s.id)
        s1 == insert_submission(st, s)
    IN  IF raised(s1) THEN s1
        ELSE LET s2 == IF rehydration_needed(stored_comments(s1, sid),
                                             hidden_comments(s1, sid),
                                             s.num_comments)
                       THEN rehydrate(s1, s)
                       ELSE s1
             IN  save_submission(s2, saved_by, sid)

(***************************************************************************)
(* Ancestor chain backfill.                                                *)
(***************************************************************************)
\* a chain that holds the discovered comment only: no ancestor is fetched
build_chain_single(st, c, chain) == Append(chain, c)

\* the walk without the lookup of the parent in the store: it goes on up
\* to the top-level comment
RECURSIVE build_chain_to_root(_, _, _)
build_chain_to_root(st, c, chain) ==
    LET chain1 == Append(chain, c)
        pid == parent_comment_id(c)
    IN  IF pid = None THEN chain1
        ELSE build_chain_to_root(st, parent(c), chain1)

\* the while loop of process_comment: the discovered comment first, then
\* each fetched ancestor
RECURSIVE build_chain(_, _, _)
build_chain(st, c, chain) ==
    LET chain1 == Append(chain, c)
        pid == parent_comment_id(c)
    IN  IF pid = None THEN chain1
        ELSE IF count_by_id(st.comment, pid) # 0 THEN chain1
        ELSE build_chain(st, parent(c), chain1)

\* the chain in the order it was built, leaf first
reversed_not(chain) == chain

\* reversed(chain)
reversed(chain) == [i \in 1..Len(chain) |-> chain[Len(chain) + 1 - i]]

\* for comment in reversed(chain): insert_comment(comment)
RECURSIVE insert_chain(_, _, _)
insert_chain(st, list, i) ==
    IF i > Len(list) THEN st
    ELSE insert_chain(insert_comment(st, list[i]), list, i + 1)

\* SELECT COUNT(1) FROM saved_comment WHERE owner = %s AND comment = %s
count_saved_comment(st, owner, target) ==
    Cardinality({r \in st.saved_comment :
                     r.owner = owner /\ r.comment = target})

\* the `if saved_by:` block without its existence check
save_comment_unchecked(st, saved_by, cid) ==
    IF raised(st) \/ ~truthy(saved_by) THEN st
    ELSE insert_into_saved_comment(st, saved_by, cid)

\* the `if saved_by:` block of process_comment
save_comment(st, saved_by, cid) ==
    IF raised(st) \/ ~truthy(saved_by) THEN st
    ELSE IF count_saved_comment(st, saved_by, cid) = 0
    THEN insert_into_saved_comment(st, saved_by, cid)
    ELSE st

\* process_comment without the process_submission call that opens it
process_comment_postless(st, c, s, saved_by) ==
    LET order == reversed(build_chain(st, c, <<>>))
        s2 == insert_chain(st, order, 1)
        final == order[Len(order)]
    IN  save_comment(s2, saved_by, loads(final.id))

\* process_comment recording the first comment it inserted as the saved
\* one
process_comment_saves_root(st, c, s, saved_by) ==
    LET s1 == process_submission(st, s, None)
    IN  IF raised(s1) THEN s1
        ELSE LET order == reversed(build_chain(s1, c, <<>>))
                 s2 == insert_chain(s1, order, 1)
                 final == order[1]
             IN  save_comment(s2, saved_by, loads(final.id))

\* s is the API object comment.submission resolves to
process_comment(st, c, s, saved_by) ==
    LET s1 == process_submission(st, s, None)
    IN  IF raised(s1) THEN s1
        ELSE LET order == reversed(build_chain(s1, c, <<>>))
                 s2 == insert_chain(s1, order, 1)
                 \* the loop variable after the for loop
                 final == order[Len(order)]
             IN  save_comment(s2, saved_by, loads(final.id))

(***************************************************************************)
(* The program as a state machine.  The driver calls the handlers one      *)
(* after the other; an uncaught exception ends the process, and with it    *)
(* the id caches and the driver's locals.  Between two calls the upstream  *)
(* may change what the API shows: the snapshot (api_version), the comment  *)
(* total it reports (api_total) and how many comments of the chain the     *)
(* expanded tree exposes (api_visible).                                    *)
(*                                                                         *)
(* err, log and last record the outcome of the last call: the exception    *)
(* it raised, the rows it inserted in order, and which handler it was.     *)
(***************************************************************************)
Call(op, d, saved_by) == [op |-> op, d |-> d, saved_by |-> saved_by]

\* the archiver processes that run against the one store
Runs == {"A", "B"}

\* a process before its first db() call: no connection, empty id caches
NewRun ==
    [pc |-> "idle", kind |-> "subreddit", connection |-> "none",
     pending |-> {}, subreddit_cache |-> {}, redditor_cache |-> {},
     ret |-> None, err |-> OK]

\* main before its first statement
NewDriver == [phase |-> "start", exc |-> OK, at |-> "start"]

\* the comment rows and the post rows of a store
Snapshot(st) == [comment |-> st.comment, submission |-> st.submission]

Init ==
    /\ subreddit = {}
    /\ redditor = {}
    /\ submission = {}
    /\ comment = {}
    /\ saved_submission = {}
    /\ saved_comment = {}
    /\ subreddit_cache = {}
    /\ redditor_cache = {}
    /\ redditor_id = None
    /\ api_version = 1
    /\ api_total = 0
    /\ api_visible = 0
    /\ err = OK
    /\ log = <<>>
    /\ last = Call("init", 0, None)
    /\ runs = [p \in Runs |-> NewRun]
    /\ driver = NewDriver
    /\ uninterrupted = [comment |-> {}, submission |-> {}]

\* the state a handler starts from
Cur ==
    [subreddit |-> subreddit, redditor |-> redditor,
     submission |-> submission, comment |-> comment,
     saved_submission |-> saved_submission, saved_comment |-> saved_comment,
     subreddit_cache |-> subreddit_cache, redditor_cache |-> redditor_cache,
     err |-> OK, log |-> <<>>]

\* what the API shows now
CurSubmission == ApiSubmission(api_version, api_total, api_visible)
CurComment(d) == ApiComment(d, api_version)

\* the state a handler leaves
Return(st, rid, call) ==
    /\ subreddit' = st.subreddit
    /\ redditor' = st.redditor
    /\ submission' = st.submission
    /\ comment' = st.comment
    /\ saved_submission' = st.saved_submission
    /\ saved_comment' = st.saved_comment
    /\ subreddit_cache' = IF raised(st) THEN {} ELSE st.subreddit_cache
    /\ redditor_cache' = IF raised(st) THEN {} ELSE st.redditor_cache
    /\ redditor_id' = IF raised(st) THEN None ELSE rid
    /\ err' = st.err
    /\ log' = st.log
    /\ last' = call
    /\ UNCHANGED <<api_version, api_total, api_visible>>

\* a handler called on its own: main is not looked at
Leave(st, rid, call) ==
    /\ Return(st, rid, call)
    /\ UNCHANGED <<runs, driver, uninterrupted>>

\* the upstream changes
Upstream(v, t, n) ==
    /\ api_version' = v
    /\ api_total' = t
    /\ api_visible' = n
    /\ err' = OK
    /\ log' = <<>>
    /\ last' = Call("upstream", 0, None)
    /\ UNCHANGED <<subreddit, redditor, submission, comment,
                   saved_submission, saved_comment, subreddit_cache,
                   redditor_cache, redditor_id, runs, driver, uninterrupted>>

\* a later snapshot: scores, texts and authors differ
UpstreamEdit ==
    /\ api_version < NumVersions
    /\ Upstream(api_version + 1, api_total, api_visible)

UpstreamTotal ==
    \E t \in Totals \ {api_total} : Upstream(api_version, t, api_visible)

UpstreamVisible ==
    \E n \in (0..Depth) \ {api_visible} : Upstream(api_version, api_total, n)

\* main with --me: redditor_id = get_redditor_id(me)
ResolveMe ==
    Leave(get_redditor_id(Cur, Me), redditor_id_of(Me),
          Call("get_redditor_id", 0, None))

InsertSubmission ==
    Leave(insert_submission(Cur, CurSubmission), redditor_id,
          Call("insert_submission", 0, None))

InsertComment ==
    \E d \in Depths :
        Leave(insert_comment(Cur, CurComment(d)), redditor_id,
              Call("insert_comment", d, None))

ProcessSubmission(saved_by) ==
    Leave(process_submission(Cur, CurSubmission, saved_by), redditor_id,
          Call("process_submission", 0, saved_by))

ProcessComment(d, saved_by) ==
    Leave(process_comment(Cur, CurComment(d), CurSubmission, saved_by),
          redditor_id, Call("process_comment", d, saved_by))

\* a run without --me: nothing is recorded as saved
Next ==
    \/ UpstreamEdit
    \/ UpstreamTotal
    \/ UpstreamVisible
    \/ InsertSubmission
    \/ InsertComment
    \/ ProcessSubmission(None)
    \/ \E d \in Depths : ProcessComment(d, None)

Spec == Init /\ [][Next]_vars

\* a run with --me over the saved listing: every item is processed with
\* saved_by = redditor_id (None until get_redditor_id(me) has run)
NextMe ==
    \/ UpstreamTotal
    \/ UpstreamVisible
    \/ ResolveMe
    \/ ProcessSubmission(redditor_id)
    \/ \E d \in Depths : ProcessComment(d, redditor_id)

SpecMe == Init /\ [][NextMe]_vars

(***************************************************************************)
(* The entity reconciler statement by statement, for the processes of      *)
(* Runs on the one store.  subreddit and redditor are the committed rows;  *)
(* a process holds the rows of its open transaction in pending, and only   *)
(* its db().commit() makes them visible to the other process.  The         *)
(* connection of a process can be lost between any two of its statements:  *)
(* the server then rolls its open transaction back.                        *)
(***************************************************************************)
Kinds == {"subreddit", "redditor"}

\* the row get_subreddit_id inserts for the subreddit of the post, and
\* get_redditor_id for the authenticated user
id_row(kind) ==
    IF kind = "subreddit"
    THEN [id |-> loads(TheSubreddit.id), name |-> TheSubreddit.display_name]
    ELSE [id |-> loads(Me.id), name |-> Me.name]

\* the committed rows of the table the function works on
committed(kind) == IF kind = "subreddit" THEN subreddit ELSE redditor

\* get_subreddit_id.cache / get_redditor_id.cache of a process
cache_of(run, kind) ==
    IF kind = "subreddit" THEN run.subreddit_cache ELSE run.redditor_cache

cache_add(run, kind, id) ==
    IF kind = "subreddit"
    THEN [run EXCEPT !.subreddit_cache = @ \cup {id}]
    ELSE [run EXCEPT !.redditor_cache = @ \cup {id}]

\* db(): the probe finds the connection alive, or the connection is missing
\* or broken and a new one is opened (with no transaction on it)
db(run) ==
    IF run.connection = "alive" THEN run
    ELSE [run EXCEPT !.connection = "alive", !.pending = {}]

\* an uncaught exception ends the process
raise(run, exception) == [run EXCEPT !.pc = "raised", !.err = exception]

\* the function returns numeric_id
return_id(run, id) == [run EXCEPT !.pc = "idle", !.ret = id]

\* a statement of process p that writes nothing to the committed tables
Step(p, run) ==
    /\ runs' = [runs EXCEPT ![p] = run]
    /\ UNCHANGED <<subreddit, redditor, submission, comment,
                   saved_submission, saved_comment, subreddit_cache,
                   redditor_cache, redditor_id, api_version, api_total,
                   api_visible, err, log, last, driver, uninterrupted>>

\* the call, up to the cache lookup
GetIdCall(p, kind) ==
    /\ runs[p].pc = "idle"
    /\ LET run == [runs[p] EXCEPT !.kind = kind, !.ret = None]
           numeric_id == id_row(kind).id
       IN  IF numeric_id \in cache_of(run, kind)
           THEN Step(p, return_id(run, numeric_id))
           ELSE Step(p, [run EXCEPT !.pc = "with"])

\* with db().cursor() as cursor
GetIdWith(p) ==
    /\ runs[p].pc = "with"
    /\ Step(p, [db(runs[p]) EXCEPT !.pc = "select"])

\* SELECT COUNT(1) ... WHERE id = %s, and the branch on its result
GetIdSelect(p) ==
    /\ runs[p].pc = "select"
    /\ LET run == runs[p]
           numeric_id == id_row(run.kind).id
       IN  IF run.connection # "alive"
           THEN Step(p, raise(run, OperationalError))
           ELSE IF count_by_id(committed(run.kind), numeric_id) # 0
           THEN Step(p, return_id(cache_add(run, run.kind, numeric_id),
                                  numeric_id))
           ELSE Step(p, [run EXCEPT !.pc = "insert"])

\* INSERT INTO ... VALUES (%s, %s): waits while another open transaction
\* holds a row with the same key, fails when a committed row has it
GetIdInsert(p) ==
    /\ runs[p].pc = "insert"
    /\ LET run == runs[p]
           row == id_row(run.kind)
       IN  IF run.connection # "alive"
           THEN Step(p, raise(run, OperationalError))
           ELSE IF \E r \in committed(run.kind) :
                       r.id = row.id \/ r.name = row.name
           THEN Step(p, raise(run, UniqueViolation))
           ELSE /\ \A q \in Runs \ {p} :
                       <<run.kind, row>> \notin runs[q].pending
                /\ Step(p, [run EXCEPT !.pending = @ \cup {<<run.kind, row>>},
                                       !.pc = "commit"])

\* db().commit(): commits the transaction of the connection db() returns
GetIdCommit(p) ==
    /\ runs[p].pc = "commit"
    /\ LET run == db(runs[p])
           rows(kind) == {e[2] : e \in {x \in run.pending : x[1] = kind}}
       IN  /\ subreddit' = subreddit \cup rows("subreddit")
           /\ redditor' = redditor \cup rows("redditor")
           /\ runs' = [runs EXCEPT ![p] = [run EXCEPT !.pending = {},
                                                      !.pc = "add"]]
    /\ UNCHANGED <<submission, comment, saved_submission, saved_comment,
                   subreddit_cache, redditor_cache, redditor_id,
                   api_version, api_total, api_visible, err, log, last,
                   driver, uninterrupted>>

\* cache.add(numeric_id); return numeric_id
GetIdAdd(p) ==
    /\ runs[p].pc = "add"
    /\ LET run == runs[p]
           numeric_id == id_row(run.kind).id
       IN  Step(p, return_id(cache_add(run, run.kind, numeric_id),
                             numeric_id))

\* the connection of process p is lost; its open transaction is rolled back
ConnectionDrop(p) ==
    /\ runs[p].connection = "alive"
    /\ runs[p].pc # "raised"
    /\ Step(p, [runs[p] EXCEPT !.connection = "broken", !.pending = {}])

NextRuns ==
    \E p \in Runs :
        \/ \E kind \in Kinds : GetIdCall(p, kind)
        \/ GetIdWith(p)
        \/ GetIdSelect(p)
        \/ GetIdInsert(p)
        \/ GetIdCommit(p)
        \/ GetIdAdd(p)
        \/ ConnectionDrop(p)

SpecRuns == Init /\ [][NextRuns]_vars

(***************************************************************************)
(* main: the sources in the order main walks them.  driver.phase is the    *)
(* source main is in ("crashed" after an uncaught exception, "returned"    *)
(* after return 1); driver.exc and driver.at are the last exception the    *)
(* API raised and the source it was raised in.  An exception is raised by  *)
(* the listing or by the first fetch of an item, before the item is        *)
(* written.                                                                *)
(***************************************************************************)
Signals == {NotFound, Forbidden}

\* try: for item in me.saved(limit=None): ... except prawcore.Forbidden
saved_except_uncaught(exc) == "crashed"
saved_except(exc) == IF exc = Forbidden THEN "subreddit" ELSE "crashed"

\* the hot/new/rising/top/controversial loops and the processing of a
\* gilded item: no try around them
listing_except(exc) == "crashed"

\* safe_iterable around the gilded listing: NotFound gives the empty list
gilded_except(exc, phase) == IF exc = NotFound THEN phase ELSE "crashed"

\* try: process_submission(reddit_client.submission(...)) except NotFound
submission_except(exc) == IF exc = NotFound THEN "submission" ELSE "crashed"

\* main moves on; the store and the handlers' record are left alone
Goto(phase, exc, at) ==
    /\ driver' = [phase |-> phase, exc |-> exc, at |-> at]
    /\ UNCHANGED <<subreddit, redditor, submission, comment,
                   saved_submission, saved_comment, subreddit_cache,
                   redditor_cache, redditor_id, api_version, api_total,
                   api_visible, err, log, last, runs, uninterrupted>>

\* a run without --me
DriverNoMe ==
    /\ driver.phase = "start"
    /\ Goto("subreddit", driver.exc, driver.at)

\* --me, and reddit_client.user.me() is None: return 1
DriverMeNone ==
    /\ driver.phase = "start"
    /\ Goto("returned", driver.exc, driver.at)

\* --me: redditor_id = get_redditor_id(me)
DriverMe ==
    /\ driver.phase = "start"
    /\ Return(get_redditor_id(Cur, Me), redditor_id_of(Me),
              Call("get_redditor_id", 0, None))
    /\ driver' = [driver EXCEPT !.phase = "saved"]
    /\ UNCHANGED <<runs, uninterrupted>>

\* process_any(item, saved_by=redditor_id) for an item of me.saved()
SavedItem ==
    /\ driver.phase = "saved"
    /\ \/ ProcessSubmission(redditor_id)
       \/ \E d \in Depths : ProcessComment(d, redditor_id)

SavedSignal ==
    /\ driver.phase = "saved"
    /\ \E exc \in Signals : Goto(saved_except(exc), exc, "saved")

\* a listing loop of a subreddit (process_submission) or of a redditor
\* (process_any), and process_any for a gilded item
ListingItem(phase) ==
    /\ driver.phase = phase
    /\ \/ ProcessSubmission(None)
       \/ \E d \in Depths : ProcessComment(d, None)

ListingSignal(phase) ==
    /\ driver.phase = phase
    /\ \E exc \in Signals : Goto(listing_except(exc), exc, phase)

GildedSignal(phase) ==
    /\ driver.phase = phase
    /\ \E exc \in Signals : Goto(gilded_except(exc, phase), exc, phase)

\* an explicit post id, from --submission or from the submission file
SubmissionItem ==
    /\ driver.phase = "submission"
    /\ ProcessSubmission(None)

SubmissionSignal ==
    /\ driver.phase = "submission"
    /\ \E exc \in Signals : Goto(submission_except(exc), exc, "submission")

\* the source is exhausted
SourceEnd(phase, next) ==
    /\ driver.phase = phase
    /\ Goto(next, driver.exc, driver.at)

NextDriver ==
    \/ DriverNoMe
    \/ DriverMeNone
    \/ DriverMe
    \/ SavedItem
    \/ SavedSignal
    \/ SourceEnd("saved", "subreddit")
    \/ \E phase \in {"subreddit", "redditor"} :
           \/ ListingItem(phase)
           \/ ListingSignal(phase)
           \/ GildedSignal(phase)
    \/ SourceEnd("subreddit", "redditor")
    \/ SourceEnd("redditor", "submission")
    \/ SubmissionItem
    \/ SubmissionSignal
    \/ SourceEnd("submission", "done")

SpecDriver == Init /\ [][NextDriver]_vars

(***************************************************************************)
(* A process that dies inside process_submission.  Every INSERT has been   *)
(* committed by the db().commit() after it, so the rows written before the *)
(* crash stay; uninterrupted keeps the comment rows and the post rows the  *)
(* same call would have left had it run to its end.                        *)
(***************************************************************************)
\* the process is killed
Crash == "Crash"

\* process_submission up to a crash before the UPDATE of hidden_comments:
\* after insert_submission and, in a rehydration, after the first k
\* entries of comment_tree.list()
process_submission_crashed(st, s, k) ==
    LET sid == loads(s.id)
        s1 == insert_submission(st, s)
    IN  IF raised(s1) THEN s1
        ELSE IF rehydration_needed(stored_comments(s1, sid),
                                   hidden_comments(s1, sid), s.num_comments)
        THEN insert_listed(s1, SubSeq(s.comments, 1, k), 1,
                           existing_comments(s1, sid))
        ELSE s1

CrashProcessSubmission ==
    \E k \in 0..api_visible :
        /\ Return([process_submission_crashed(Cur, CurSubmission, k)
                       EXCEPT !.err = Crash],
                  None, Call("crash", k, None))
        /\ uninterrupted' =
               Snapshot(process_submission(Cur, CurSubmission, None))
        /\ UNCHANGED <<runs, driver>>

NextCrash ==
    \/ UpstreamTotal
    \/ UpstreamVisible
    \/ ProcessSubmission(None)
    \/ CrashProcessSubmission

SpecCrash == Init /\ [][NextCrash]_vars

(***************************************************************************)
(* Properties.                                                             *)
(***************************************************************************)
\* the ids the store uses for the post and for the comment at depth d
Sid == loads(SubmissionId)
Cid(d) == loads(CommentId(d))

\* the tables, without the caches and the record of the last call
tables == <<subreddit, redditor, submission, comment, saved_submission,
            saved_comment>>

PostStored == \E r \in submission : r.id = Sid
CommentStored(d) == \E r \in comment : r.id = Cid(d)

\* no two rows of a table share their id
UniqueIds(table) == \A r1, r2 \in table : r1.id = r2.id => r1 = r2

\* the rows of a kind the last call inserted, in order
Inserted(kind) == SelectSeq(log, LAMBDA e : e[1] = kind)

\* C1: a second insert_submission or insert_comment for an id that is
\* already stored returns normally and changes no table, after an insert
\* exactly one row carries the id, and no table ever holds two rows with
\* the same id.
C1_Idempotent ==
    [][/\ UniqueIds(subreddit)' /\ UniqueIds(redditor)'
       /\ UniqueIds(submission)' /\ UniqueIds(comment)'
       /\ UniqueIds(saved_submission)' /\ UniqueIds(saved_comment)'
       /\ (last'.op = "insert_submission" /\ PostStored)
              => /\ err' = OK
                 /\ tables' = tables
                 /\ count_by_id(submission', Sid) = 1
       /\ (last'.op = "insert_comment" /\ CommentStored(last'.d))
              => /\ err' = OK
                 /\ tables' = tables
                 /\ count_by_id(comment', Cid(last'.d)) = 1]_vars

\* a repeated insert_submission: the row was there, nothing was inserted
C1_Witness ==
    /\ last.op = "insert_submission"
    /\ err = OK
    /\ log = <<>>
    /\ count_by_id(submission, Sid) = 1

\* the row of the post, but for its hidden-comment count
Content(r) == [r EXCEPT !.hidden_comments = 0]

\* C2: once a post or comment row exists, no later call changes its score
\* or any other field it was inserted with, whatever the upstream shows
\* (the hidden-comment count of a post is the one field that is updated).
C2_WriteOnce ==
    [][/\ \A r \in submission :
              \E r2 \in submission' : Content(r2) = Content(r)
       /\ \A r \in comment : r \in comment']_vars

\* insert_submission met a stored post whose upstream score has changed
C2_Witness ==
    /\ last.op = "insert_submission"
    /\ err = OK
    /\ \E r \in submission : r.id = Sid /\ r.score # CurSubmission.score
    /\ \E r \in comment : r.score # api_version

\* every reference of a row names a stored row
ReferentialIntegrity ==
    /\ \A r \in submission :
           /\ count_by_id(subreddit, r.subreddit) = 1
           /\ r.author # None => count_by_id(redditor, r.author) = 1
    /\ \A r \in comment :
           /\ count_by_id(submission, r.submission) = 1
           /\ r.parent # None => count_by_id(comment, r.parent) = 1
           /\ r.author # None => count_by_id(redditor, r.author) = 1
    /\ \A r \in saved_submission :
           /\ count_by_id(submission, r.submission) = 1
           /\ count_by_id(redditor, r.owner) = 1
    /\ \A r \in saved_comment :
           /\ count_by_id(comment, r.comment) = 1
           /\ count_by_id(redditor, r.owner) = 1

\* C3: under process_submission and process_comment every stored reference
\* (container, author, post, parent comment, saved target, saved owner)
\* names a stored row, and no insert is ever rejected for a missing
\* dependency: the dependency is always stored first.
C3_ReferentialIntegrity ==
    /\ ReferentialIntegrity
    /\ last.op \in {"process_submission", "process_comment"} => err = OK

\* a reply with an author and a saved association for it are stored
C3_Witness ==
    /\ last.op = "process_comment"
    /\ \E r \in comment : r.parent # None /\ r.author # None
    /\ \E r \in submission : r.author # None
    /\ saved_comment # {}
    /\ saved_submission # {}

\* C4 as stated: insert_comment for a comment whose post is not stored
\* succeeds and leaves both the post row and the comment row.
C4_InsertCommentPersistsPost ==
    last.op = "insert_comment"
        => err = OK /\ PostStored /\ CommentStored(last.d)

\* C4 as amended: it is process_comment that persists the post of a comment
\* first (before the comment), so that the call succeeds and both rows
\* exist afterwards; insert_comment for a comment whose post is not stored
\* is rejected by the store and stores neither row; no comment row ever
\* exists without its post row.
C4_ProcessCommentPersistsPost ==
    [][/\ (last'.op = "process_comment" /\ ~PostStored)
              => /\ err' = OK
                 /\ PostStored'
                 /\ \E r \in comment' : r.id = Cid(last'.d)
                 /\ Inserted("submission")' = <<(<<"submission", Sid>>)>>
                 /\ \E i, j \in 1..Len(log') :
                        /\ i < j
                        /\ log'[i] = <<"submission", Sid>>
                        /\ log'[j] = <<"comment", Cid(last'.d)>>
       /\ (last'.op = "insert_comment" /\ ~PostStored)
              => /\ err' = ForeignKeyViolation
                 /\ comment' = comment
                 /\ submission' = submission
       /\ comment' # {} => PostStored']_vars

\* process_comment has stored the post and then the comment
C4_Witness ==
    /\ last.op = "process_comment"
    /\ err = OK
    /\ Inserted("submission") = <<(<<"submission", Sid>>)>>
    /\ CommentStored(last.d)

\* the stored comment count and the hidden-comment count of the post
StoredCount == Cardinality({r \in comment : r.submission = Sid})
Hidden ==
    IF PostStored THEN (CHOOSE r \in submission : r.id = Sid).hidden_comments
    ELSE 0
StoredPlusHidden == StoredCount + Hidden

\* the handlers that evaluate the completeness of the post
Evaluates(call) == call.op \in {"process_submission", "process_comment"}

\* C5: (stored + hidden) of the post never decreases, under any sequence of
\* process_submission runs, process_comment backfills and upstream changes,
\* and a run leaves it at the reported total or above.
C5_Convergence ==
    [][/\ StoredPlusHidden' >= StoredPlusHidden
       /\ Evaluates(last') => StoredPlusHidden' >= api_total']_vars

\* a second rehydration has stored one more comment and counts one hidden
C5_Witness ==
    /\ last.op = "process_submission"
    /\ api_total = 3
    /\ Inserted("comment") = <<(<<"comment", Cid(2)>>)>>
    /\ StoredCount = 2
    /\ Hidden = 1

\* the comments of the chain of the comment at depth d that are not stored
Missing(d) == {x \in 1..d : ~CommentStored(x)}

\* the comments at the depths of S, root first
RootToLeaf(S) ==
    [i \in 1..Cardinality(S) |->
        <<"comment",
          Cid(CHOOSE x \in S : Cardinality({y \in S : y < x}) = i - 1)>>]

\* the inserts of lg that store a comment of the chain of depth d
ChainInserted(lg, d) ==
    SelectSeq(lg, LAMBDA e : e[1] = "comment"
                             /\ \E x \in 1..d : e[2] = Cid(x))

\* C6: process_comment stores exactly the comments of the discovered
\* comment's chain that were not stored, root first and leaf last; when the
\* post is stored and complete these are the only rows it inserts; a second
\* process_comment for the same comment inserts nothing.
C6_ChainAnchoring ==
    [][last'.op = "process_comment" =>
          /\ err' = OK
          /\ ChainInserted(log', last'.d) = RootToLeaf(Missing(last'.d))
          /\ (PostStored /\ StoredPlusHidden >= api_total)
                 => /\ Inserted("comment")' = RootToLeaf(Missing(last'.d))
                    /\ Inserted("submission")' = <<>>
          /\ (last = last' /\ err = OK)
                 => log' = <<>> /\ tables' = tables]_vars

\* the post was stored without comments; the backfill stored the whole
\* chain of the deepest comment, root first
C6_Witness ==
    /\ last.op = "process_comment"
    /\ last.d = Depth
    /\ api_visible = 0
    /\ Inserted("submission") = <<>>
    /\ Inserted("comment") = RootToLeaf(1..Depth)

\* the inserts of lg that store the post or a comment of the chain
PostAndChainInserted(lg, d) ==
    SelectSeq(lg, LAMBDA e : \/ e[1] = "submission"
                             \/ /\ e[1] = "comment"
                                /\ \E x \in 1..d : e[2] = Cid(x))

\* every comment insert of lg comes after its post and its parent comment
\* are stored
ParentsFirst(lg) ==
    \A i \in 1..Len(lg) :
        lg[i][1] = "comment" =>
            /\ PostStored \/ \E j \in 1..(i - 1) : lg[j] = <<"submission", Sid>>
            /\ \A x \in 2..Depth :
                   lg[i][2] = Cid(x) =>
                       \/ CommentStored(x - 1)
                       \/ \E j \in 1..(i - 1) : lg[j] = <<"comment", Cid(x - 1)>>

\* C7: process_comment for a reply whose post is not stored inserts the
\* post, then the parent comment, then the reply; no comment is inserted
\* before its post and its parent are stored.
C7_PostParentChild ==
    [][last'.op = "process_comment" =>
          /\ ParentsFirst(log')
          /\ (last'.d >= 2 /\ ~PostStored)
                 => /\ err' = OK
                    /\ PostAndChainInserted(log', last'.d)
                           = <<(<<"submission", Sid>>)>>
                                 \o RootToLeaf(1..last'.d)]_vars

\* post A, comment B and reply C have been inserted, in this order
C7_Witness ==
    /\ last.op = "process_comment"
    /\ last.d = 2
    /\ PostAndChainInserted(log, 2)
           = <<(<<"submission", Sid>>), <<"comment", Cid(1)>>,
               <<"comment", Cid(2)>>>>

\* the comments of the flattened list that are not stored, in list order
Unstored ==
    SelectSeq([d \in 1..api_visible |-> <<"comment", Cid(d)>>],
              LAMBDA e : \A r \in comment : r.id # e[2])

\* C8: a process_submission that finds stored + hidden below the reported
\* total inserts exactly the comments of the flattened list that are not
\* stored, leaves the stored rows alone, and sets the hidden-comment count
\* to the reported total minus the length of the list.
C8_Rehydration ==
    [][(last'.op = "process_submission" /\ StoredPlusHidden < api_total) =>
          /\ err' = OK
          /\ Inserted("comment")' = Unstored
          /\ comment \subseteq comment'
          /\ Cardinality(comment') = Cardinality(comment) + Len(Unstored)
          /\ Hidden' = api_total - api_visible]_vars

\* total 3, one comment stored, a list of 3: two rows inserted, 0 hidden
C8_Witness ==
    /\ last.op = "process_submission"
    /\ api_total = 3
    /\ api_visible = 3
    /\ Inserted("comment") = <<(<<"comment", Cid(2)>>), <<"comment", Cid(3)>>>>
    /\ StoredCount = 3
    /\ Hidden = 0

\* C9: the saved-post and the saved-comment table hold at most one row per
\* (owner, target) pair.
C9_OneRowPerPair ==
    /\ \A r1, r2 \in saved_submission :
           (r1.owner = r2.owner /\ r1.submission = r2.submission) => r1 = r2
    /\ \A r1, r2 \in saved_comment :
           (r1.owner = r2.owner /\ r1.comment = r2.comment) => r1 = r2

\* a saved comment was processed again for the same owner: no row was added
C9_Witness ==
    /\ last.op = "process_comment"
    /\ truthy(last.saved_by)
    /\ log = <<>>
    /\ count_saved_comment(Cur, last.saved_by, Cid(last.d)) = 1
    /\ saved_submission # {}

\* C10 as stated: the stored hidden-comment count is never negative.
C10_NeverNegative == \A r \in submission : r.hidden_comments >= 0

\* C10 as amended: the hidden-comment count changes in a rehydration only,
\* which stores the reported total minus the length of the flattened list
\* as computed: a negative value when the total is below the length.
C10_RawDifference ==
    [][/\ (Evaluates(last') /\ StoredPlusHidden < api_total)
              => /\ Hidden' = api_total - api_visible
                 /\ Hidden' < 0 <=> api_total < api_visible
       /\ ~(Evaluates(last') /\ StoredPlusHidden < api_total)
              => Hidden' = Hidden]_vars

\* a rehydration found more comments than the reported total
C10_Witness ==
    /\ last.op = "process_submission"
    /\ api_total < api_visible
    /\ Hidden = api_total - api_visible
    /\ StoredCount = api_visible

\* the outcome of get_subreddit_id and get_redditor_id for a process with
\* the given caches: the ids they return and the rows they leave
reconciled(cache_s, cache_r) ==
    LET st == [Cur EXCEPT !.subreddit_cache = cache_s,
                          !.redditor_cache = cache_r]
    IN  <<loads(TheSubreddit.id), get_subreddit_id(st, TheSubreddit).subreddit,
          redditor_id_of(Me), get_redditor_id(st, Me).redditor>>

\* C11: when two processes race on get_subreddit_id or get_redditor_id for
\* an id that is not stored yet, neither call fails on the row the other
\* one inserted, and the table holds the id once.
C11_RaceTolerated ==
    /\ \A p \in Runs : runs[p].err # UniqueViolation
    /\ \A kind \in Kinds : count_by_id(committed(kind), id_row(kind).id) <= 1

\* C12: at every point of a run, the reconciler returns the same ids and
\* leaves the same rows with the run's id caches as with empty caches.
C12_CacheNeverAuthoritative ==
    \A p \in Runs :
        runs[p].pc = "idle" =>
            reconciled(runs[p].subreddit_cache, runs[p].redditor_cache)
                = reconciled({}, {})

\* C14: a lost connection never surfaces in get_subreddit_id or
\* get_redditor_id, and the row of every id a call has returned or added
\* to its cache is committed.
C14_DropInvisible ==
    \A p \in Runs :
        /\ runs[p].err # OperationalError
        /\ \A kind \in Kinds :
               \A id \in cache_of(runs[p], kind) :
                   count_by_id(committed(kind), id) = 1
        /\ (runs[p].pc = "idle" /\ runs[p].ret # None)
               => count_by_id(committed(runs[p].kind), runs[p].ret) = 1

\* C13: a not-found signal raised while main works on a source never ends
\* the run.
C13_NotFoundNeverFatal ==
    ~(driver.phase = "crashed" /\ driver.exc = NotFound)

\* C18: an access-forbidden signal raised in the saved listing ends that
\* source only: no row is removed or added by it, and main goes on with
\* the subreddits (then the redditors and the explicit post ids).
C18_ForbiddenSkipsSaved ==
    [][(driver.phase = "saved" /\ driver'.exc = Forbidden
            /\ driver' # driver)
           => /\ driver'.phase = "subreddit"
              /\ tables' = tables]_vars

\* the saved listing was cut short by Forbidden after a comment had been
\* saved from it; main has since processed an explicit post id
C18_Witness ==
    /\ driver.phase = "submission"
    /\ driver.exc = Forbidden
    /\ driver.at = "saved"
    /\ saved_comment # {}
    /\ last.op = "process_submission"
    /\ last.saved_by = None

\* C15: the complete process_submission that follows a crashed one, with
\* the API showing the same data, leaves the comment rows and the hidden
\* count the crashed call would have left had it not been interrupted.
C15_CrashSelfCorrects ==
    [][(last.op = "crash" /\ last'.op = "process_submission")
           => /\ comment' = uninterrupted.comment
              /\ submission' = uninterrupted.submission]_vars

\* C16: a process_submission that finds stored + hidden at the reported
\* total or above inserts no comment row and leaves the hidden count as it
\* is; it writes at most the post (with its subreddit and author) and the
\* saved association.
C16_NoRehydration ==
    [][(last'.op = "process_submission" /\ StoredPlusHidden >= api_total)
           => /\ comment' = comment
              /\ Hidden' = Hidden
              /\ \A i \in 1..Len(log') :
                     log'[i][1] \in {"subreddit", "redditor", "submission",
                                     "saved_submission"}]_vars

\* the list shows comments that are not stored, the post counts as
\* complete, and the call has written the saved association only
C16_Witness ==
    /\ last.op = "process_submission"
    /\ truthy(last.saved_by)
    /\ StoredPlusHidden >= api_total
    /\ api_visible > StoredCount
    /\ log = <<(<<"saved_submission", Sid>>)>>

\* the authors get_redditor_id answers with None
Absent == {NoRedditor, NotFoundRedditor}

\* C17: get_redditor_id returns None and leaves the redditor table alone
\* for an absent author and for one whose fetch raises NotFound; an insert
\* of a post or comment with such an author succeeds and stores the row
\* with author NULL, and every post or comment row a call inserts for such
\* an author has author NULL.
C17_AbsentAuthor ==
    [][/\ \A r \in Absent :
              /\ redditor_id_of(r) = None
              /\ get_redditor_id(Cur, r).redditor = redditor
              /\ get_redditor_id(Cur, r).err = OK
       /\ (last'.op = "insert_submission" /\ ~PostStored
               /\ CurSubmission.author \in Absent)
              => /\ err' = OK
                 /\ \E r \in submission' : r.id = Sid /\ r.author = None
                 /\ redditor' = redditor
       /\ (last'.op = "insert_comment" /\ PostStored
               /\ ~CommentStored(last'.d)
               /\ (last'.d = 1 \/ CommentStored(last'.d - 1))
               /\ CurComment(last'.d).author \in Absent)
              => /\ err' = OK
                 /\ \E r \in comment' :
                        r.id = Cid(last'.d) /\ r.author = None
                 /\ redditor' = redditor
       /\ \A d \in Depths :
              (CurComment(d).author \in Absent /\ ~CommentStored(d))
                  => \A r \in comment' : r.id = Cid(d) => r.author = None]_vars

\* insert_comment has stored a comment whose author's fetch raises NotFound
C17_Witness ==
    /\ last.op = "insert_comment"
    /\ err = OK
    /\ CurComment(last.d).author = NotFoundRedditor
    /\ log = <<(<<"comment", Cid(last.d)>>)>>
    /\ \E r \in comment : r.id = Cid(last.d) /\ r.author = None

\* the chain the walk of process_comment builds for the comment at depth d
chain_of(d) == build_chain(Cur, CurComment(d), <<>>)

\* C19: for every comment the walk ends with a chain of at most as many
\* comments as the comment is deep, the discovered comment first and each
\* next one the parent of the one before; it goes on only over parents
\* that are not stored, and the parent reference of the last one names the
\* post or a stored comment.
C19_WalkTerminates ==
    \A d \in Depths :
        LET chain == chain_of(d)
            n == Len(chain)
        IN  /\ 1 <= n /\ n <= d
            /\ chain[1] = CurComment(d)
            /\ \A i \in 1..(n - 1) :
                   /\ parent_comment_id(chain[i]) = loads(chain[i + 1].id)
                   /\ count_by_id(comment, loads(chain[i + 1].id)) = 0
            /\ \/ ~is_reply(chain[n])
               \/ count_by_id(comment, parent_comment_id(chain[n])) # 0

\* process_comment for the deepest comment found the top-level comment
\* stored and backfilled the comments below it
C19_Witness ==
    /\ last.op = "process_comment"
    /\ last.d = Depth
    /\ api_visible = 0
    /\ Len(Inserted("comment")) = Depth - 1
    /\ Depth - 1 >= 2

\* C20: a process_comment with a saved-by owner records the discovered
\* comment as saved, once, and nothing else: no saved row for an ancestor
\* it backfilled and no saved row for the post.
C20_SavedTargetsDiscovered ==
    [][(last'.op = "process_comment" /\ truthy(last'.saved_by))
           => /\ saved_submission' = saved_submission
              /\ \A r \in saved_comment' \ saved_comment :
                     r.comment = Cid(last'.d) /\ r.owner = last'.saved_by
              /\ count_saved_comment([saved_comment |-> saved_comment'],
                                     last'.saved_by, Cid(last'.d)) = 1]_vars

\* the call backfilled at least one ancestor and saved the discovered
\* comment; the post has no saved row
C20_Witness ==
    /\ last.op = "process_comment"
    /\ truthy(last.saved_by)
    /\ api_total = 0
    /\ Len(Inserted("comment")) >= 2
    /\ Inserted("saved_comment") = <<(<<"saved_comment", Cid(last.d)>>)>>
    /\ saved_submission = {}

====
